---- MODULE Spec2Model ----
EXTENDS Integers, Sequences, FiniteSets, TLC

(***************************************************************************)
(* Model of the BLS signing route (src/src/api/signing_route.rs):          *)
(* secure_sign_bls, is_slashable and update_slash_protection_db, over the  *)
(* slashing-protection store, the signing-root deriver and the signer      *)
(* they call.  A request is one execution of secure_sign_bls; requests     *)
(* run in parallel and interleave at their accesses to the store and the   *)
(* signer, which are the only shared state.                                *)
(***************************************************************************)

\* ------------------------------------------------------------- bounds
NumReq == 2        \* requests served in parallel (Spec)
MaxSlot == 1       \* block slots of Spec
MaxEpoch == 0      \* attestation epochs of Spec (0..MaxEpoch)
SeqReq == 3        \* requests of the other specifications
SeqMaxSlot == 2    \* their block slots
SeqMaxEpoch == 2   \* their attestation epochs

\* ------------------------------------------------------------- values
Keys == {"aa", "bb"}
BadKey == "zz"
ForkVersions == {"fv0"}
NoContext == "None"

Msg(k, sl, s, t) == [kind |-> k, slot |-> sl, source |-> s, target |-> t]
BlockMsgs(maxSlot) ==
    {Msg(k, sl, 0, 0) : k \in {"BLOCK", "BLOCK_V2"}, sl \in 1..maxSlot}
BlockV1Msgs(maxSlot) == {Msg("BLOCK", sl, 0, 0) : sl \in 1..maxSlot}
AttestationMsgs(maxEpoch) ==
    {Msg("ATTESTATION", 0, s, t) : s \in 0..maxEpoch, t \in 0..maxEpoch}
ValidAttestationMsgs(maxEpoch) ==
    {m \in AttestationMsgs(maxEpoch) : m.source <= m.target}
OtherMsgs == {Msg("OTHER", 0, 0, 0)}
BadBody == Msg("malformed", 0, 0, 0)
NoMsg == Msg("none", 0, 0, 0)

IsBlock(m) == m.kind \in {"BLOCK", "BLOCK_V2"}
IsAttestation(m) == m.kind = "ATTESTATION"

Ok(v) == [ok |-> TRUE, val |-> v]
Err == [ok |-> FALSE, val |-> FALSE]

\* ------------------------------------------------------------- state
VARIABLES
    growable,              \* ALLOW_GROWABLE_SLASH_PROTECTION_DB of the build
    genesis_fork_version,  \* the route's fork version
    store,                 \* the durable protection history of each key
    pc,                    \* where each request is in secure_sign_bls
    bls_pk_hex,            \* the sanitized key of each request
    req,                   \* the deserialized message of each request
    db,                    \* the history update_slash_protection_db read
    rec,                   \* the record update_slash_protection_db committed
    signing_root,          \* the root secure_sign_bls computed for signing
    outcome,               \* the response of each finished request
    reason,                \* the step that produced a rejection
    signerCalls,           \* the roots the signer was called with, per request
    bad                    \* what was wrong with each request as it arrived

vars == <<growable, genesis_fork_version, store, pc, bls_pk_hex, req, db, rec,
          signing_root, outcome, reason, signerCalls, bad>>

\* ------------------------------------------- the protection store
\* A ProtectionHistory: the block records and the attestation records of one
\* key, most recent last; exists is FALSE while the key has no durable history.
NoHistory == [exists |-> FALSE, blocks |-> <<>>, atts |-> <<>>]
EmptyHistory == [exists |-> TRUE, blocks |-> <<>>, atts |-> <<>>]

SignedBlockSlot(sl, root) == [slot |-> sl, signing_root |-> root]
SignedAttestationEpochs(s, t, root) ==
    [source_epoch |-> s, target_epoch |-> t, signing_root |-> root]
NoRecord == [slot |-> 0, signing_root |-> NoContext]
NoRoot == [msg |-> NoMsg, ctx |-> NoContext]

\* SlashingProtectionData::read: the stored history; NotFound when none exists
\* and the growable policy is disabled; io is FALSE when the read itself fails.
Read(st, k, g, io) ==
    IF ~io THEN Err
    ELSE IF st[k].exists \/ g THEN Ok(st[k])
    ELSE Err

\* SlashingProtectionData::new_block / new_attestation: append the record.
new_block(h, b, g) ==
    IF ~g /\ ~h.exists THEN Err
    ELSE Ok([h EXCEPT !.blocks = Append(@, b)])

new_attestation(h, a, g) ==
    IF ~g /\ ~h.exists THEN Err
    ELSE Ok([h EXCEPT !.atts = Append(@, a)])

\* SlashingProtectionData::write: the whole history replaces the stored one.
Write(st, k, h) == [st EXCEPT ![k] = [h EXCEPT !.exists = TRUE]]

\* ------------------------------------------- the evaluator
is_slashable_block_slot(h, sl) ==
    \E i \in 1..Len(h.blocks) : sl <= h.blocks[i].slot

DoubleVote(a, s, t) == a.target_epoch = t
SurroundVote(a, s, t) ==
    \/ (s < a.source_epoch /\ t > a.target_epoch)
    \/ (a.source_epoch > s /\ a.target_epoch < t)

is_slashable_attestation_epochs(h, s, t) ==
    \E i \in 1..Len(h.atts) :
        DoubleVote(h.atts[i], s, t) \/ SurroundVote(h.atts[i], s, t)

\* ------------------------------------------- the message model
\* BLSSignMsg::to_signing_root: a digest of the message and the optional
\* fork context, modelled as the pair it is derived from.
to_signing_root(m, ctx) == [msg |-> m, ctx |-> ctx]

can_be_slashed(m) == IsBlock(m) \/ IsAttestation(m)

\* bls_keys::sanitize_bls_pk_hex: a well-formed key in its canonical spelling
\* (hex is compared case-insensitively), an error for anything else
Canonical == [aa |-> "aa", AA |-> "aa", bb |-> "bb", BB |-> "bb"]
sanitize_bls_pk_hex(raw) ==
    IF raw \in DOMAIN Canonical THEN Ok(Canonical[raw]) ELSE Err

\* ------------------------------------------- signing_route.rs
\* (mutant) BLOCK_V2 falls into the arm of the messages that are not slashable
is_slashable_v2Unchecked(readRes, m) ==
    IF ~readRes.ok THEN Err
    ELSE CASE m.kind = "BLOCK" -> Ok(is_slashable_block_slot(readRes.val, m.slot))
           [] m.kind = "ATTESTATION" ->
                Ok(is_slashable_attestation_epochs(readRes.val, m.source, m.target))
           [] OTHER -> Ok(FALSE)

\* (mutant) the history is only read in the arms that use it
is_slashable_lazyRead(readRes, m) ==
    IF ~can_be_slashed(m) THEN Ok(FALSE)
    ELSE IF ~readRes.ok THEN Err
    ELSE IF IsBlock(m) THEN Ok(is_slashable_block_slot(readRes.val, m.slot))
    ELSE Ok(is_slashable_attestation_epochs(readRes.val, m.source, m.target))

\* (mutant) the last arm evaluates the message as a block
is_slashable_otherAsBlock(readRes, m) ==
    IF ~readRes.ok THEN Err
    ELSE IF IsAttestation(m)
         THEN Ok(is_slashable_attestation_epochs(readRes.val, m.source, m.target))
    ELSE Ok(is_slashable_block_slot(readRes.val, m.slot))

\* is_slashable: the history is read first, for every message kind.
is_slashable(readRes, m) ==
    IF ~readRes.ok THEN Err
    ELSE CASE m.kind = "BLOCK" -> Ok(is_slashable_block_slot(readRes.val, m.slot))
           [] m.kind = "BLOCK_V2" -> Ok(is_slashable_block_slot(readRes.val, m.slot))
           [] m.kind = "ATTESTATION" ->
                Ok(is_slashable_attestation_epochs(readRes.val, m.source, m.target))
           [] OTHER -> Ok(FALSE)

\* update_slash_protection_db, after its read: the record it builds
UpdateRecord(m) ==
    CASE m.kind = "BLOCK" -> SignedBlockSlot(m.slot, to_signing_root(m, NoContext))
      [] m.kind = "BLOCK_V2" -> SignedBlockSlot(m.slot, to_signing_root(m, NoContext))
      [] m.kind = "ATTESTATION" ->
           SignedAttestationEpochs(m.source, m.target, to_signing_root(m, NoContext))
      [] OTHER -> NoRecord

\* and the history it hands to write (an error for any other message kind)
UpdateAppend(h, m, g) ==
    CASE m.kind = "BLOCK" -> new_block(h, UpdateRecord(m), g)
      [] m.kind = "BLOCK_V2" -> new_block(h, UpdateRecord(m), g)
      [] m.kind = "ATTESTATION" -> new_attestation(h, UpdateRecord(m), g)
      [] OTHER -> Err

\* (mutant) the key is sanitized before the body is deserialized
ParseRequest_keyFirst(raw, body) ==
    IF ~sanitize_bls_pk_hex(raw).ok
    THEN [pc |-> "done", outcome |-> "RejectedMalformed", reason |-> "key"]
    ELSE IF body = BadBody
         THEN [pc |-> "done", outcome |-> "RejectedMalformed", reason |-> "body"]
    ELSE [pc |-> "check", outcome |-> "none", reason |-> "none"]

\* secure_sign_bls, lines 97-118: the body is deserialized, then the key sanitized
ParseRequest(raw, body) ==
    IF body = BadBody THEN [pc |-> "done", outcome |-> "RejectedMalformed", reason |-> "body"]
    ELSE IF ~sanitize_bls_pk_hex(raw).ok
         THEN [pc |-> "done", outcome |-> "RejectedMalformed", reason |-> "key"]
    ELSE [pc |-> "check", outcome |-> "none", reason |-> "none"]

\* (mutant) the slashable arm does not return
AfterCheck_noReturn(res, m) ==
    IF ~res.ok THEN [pc |-> "done", outcome |-> "RejectedStoreFailure", reason |-> "check"]
    ELSE IF can_be_slashed(m) THEN [pc |-> "update", outcome |-> "none", reason |-> "none"]
    ELSE [pc |-> "sign", outcome |-> "none", reason |-> "none"]

\* (mutant) the update is called for every message kind
AfterCheck_updateAlways(res, m) ==
    IF ~res.ok THEN [pc |-> "done", outcome |-> "RejectedStoreFailure", reason |-> "check"]
    ELSE IF res.val
         THEN [pc |-> "done", outcome |-> "RejectedSlashable", reason |-> "check"]
    ELSE [pc |-> "update", outcome |-> "none", reason |-> "none"]

\* secure_sign_bls, lines 124-155: what follows the slashability check
AfterCheck(res, m) ==
    IF ~res.ok THEN [pc |-> "done", outcome |-> "RejectedStoreFailure", reason |-> "check"]
    ELSE IF res.val
         THEN [pc |-> "done", outcome |-> "RejectedSlashable", reason |-> "check"]
    ELSE IF can_be_slashed(m) THEN [pc |-> "update", outcome |-> "none", reason |-> "none"]
    ELSE [pc |-> "sign", outcome |-> "none", reason |-> "none"]

\* (mutant) the error of update_slash_protection_db is logged and signing goes on
AfterUpdate_ignoreError(ok) == [pc |-> "sign", outcome |-> "none", reason |-> "none"]

\* (mutant) the error response of a failed update is built but not returned
AfterUpdate_noReturn(ok) ==
    IF ok THEN [pc |-> "sign", outcome |-> "none", reason |-> "none"]
    ELSE [pc |-> "sign", outcome |-> "RejectedStoreFailure", reason |-> "update"]

\* secure_sign_bls, lines 148-154: what follows update_slash_protection_db
AfterUpdate(ok) ==
    IF ok THEN [pc |-> "sign", outcome |-> "none", reason |-> "none"]
    ELSE [pc |-> "done", outcome |-> "RejectedStoreFailure", reason |-> "update"]

\* (mutant) a failed signer call is tried again
AfterSign_retry(ok) ==
    IF ok THEN [pc |-> "done", outcome |-> "Signed", reason |-> "none"]
    ELSE [pc |-> "sign", outcome |-> "none", reason |-> "none"]

\* secure_sign_bls, lines 158-170: the signer's result becomes the response
AfterSign(ok) ==
    IF ok THEN [pc |-> "done", outcome |-> "Signed", reason |-> "none"]
    ELSE [pc |-> "done", outcome |-> "RejectedCryptoFailure", reason |-> "sign"]

\* ------------------------------------------- the requests
Requests == DOMAIN pc
Done(r) == pc[r] = "done"
InFlight(r) == pc[r] \notin {"idle", "done"}

InitOf(n, ks) ==
    /\ growable \in BOOLEAN
    /\ genesis_fork_version \in ForkVersions
    /\ store \in {st \in [Keys -> {NoHistory, EmptyHistory}] :
                    \A k \in Keys \ ks : st[k] = NoHistory}
    /\ pc = [r \in 1..n |-> "idle"]
    /\ bls_pk_hex = [r \in 1..n |-> BadKey]
    /\ req = [r \in 1..n |-> NoMsg]
    /\ db = [r \in 1..n |-> NoHistory]
    /\ rec = [r \in 1..n |-> NoRecord]
    /\ signing_root = [r \in 1..n |-> NoRoot]
    /\ outcome = [r \in 1..n |-> "none"]
    /\ reason = [r \in 1..n |-> "none"]
    /\ signerCalls = [r \in 1..n |-> <<>>]
    /\ bad = [r \in 1..n |-> [body |-> FALSE, key |-> FALSE]]

Goto(r, nxt) ==
    /\ pc' = [pc EXCEPT ![r] = nxt.pc]
    /\ outcome' = [outcome EXCEPT ![r] = nxt.outcome]
    /\ reason' = [reason EXCEPT ![r] = nxt.reason]

\* A request arrives and runs secure_sign_bls up to the end of its slashability
\* check (lines 94-143): the body is deserialized, the key sanitized, and
\* is_slashable reads the store, which is the request's first access to shared
\* state; a request that passes gets the signing root of line 143.
Receive(r, raws, bodies) ==
    /\ pc[r] = "idle"
    /\ \A q \in Requests : q < r => pc[q] # "idle"
    /\ \E raw \in raws, body \in bodies, io \in BOOLEAN :
        LET parsed == ParseRequest(raw, body)
            pk == sanitize_bls_pk_hex(raw).val
            res == is_slashable(Read(store, pk, growable, io), body)
            nxt == IF parsed.pc = "done" THEN parsed ELSE AfterCheck(res, body)
        IN /\ parsed.pc = "done" => io
           /\ Goto(r, nxt)
           /\ bls_pk_hex' = [bls_pk_hex EXCEPT
                   ![r] = IF parsed.pc = "done" THEN @ ELSE pk]
           /\ req' = [req EXCEPT ![r] = IF parsed.pc = "done" THEN @ ELSE body]
           /\ signing_root' =
                IF nxt.pc = "done" THEN signing_root
                ELSE [signing_root EXCEPT
                        ![r] = to_signing_root(body, genesis_fork_version)]
           /\ bad' = [bad EXCEPT ![r] = [body |-> body = BadBody,
                                         key |-> ~sanitize_bls_pk_hex(raw).ok]]
    /\ UNCHANGED <<growable, genesis_fork_version, store, db, rec, signerCalls>>

\* (mutant) the update reads one history file whatever the key
UpdateRead_oneFile(r) ==
    /\ pc[r] = "update"
    /\ \E io \in BOOLEAN :
        LET res == Read(store, "aa", growable, io)
        IN IF res.ok
           THEN /\ db' = [db EXCEPT ![r] = res.val]
                /\ pc' = [pc EXCEPT ![r] = "write"]
                /\ UNCHANGED <<outcome, reason>>
           ELSE /\ Goto(r, AfterUpdate(FALSE))
                /\ UNCHANGED db
    /\ UNCHANGED <<growable, genesis_fork_version, store, bls_pk_hex, req, rec,
                   signing_root, signerCalls, bad>>

\* update_slash_protection_db, line 51: its own read of the history
UpdateRead(r) ==
    /\ pc[r] = "update"
    /\ \E io \in BOOLEAN :
        LET res == Read(store, bls_pk_hex[r], growable, io)
        IN IF res.ok
           THEN /\ db' = [db EXCEPT ![r] = res.val]
                /\ pc' = [pc EXCEPT ![r] = "write"]
                /\ UNCHANGED <<outcome, reason>>
           ELSE /\ Goto(r, AfterUpdate(FALSE))
                /\ UNCHANGED db
    /\ UNCHANGED <<growable, genesis_fork_version, store, bls_pk_hex, req, rec,
                   signing_root, signerCalls, bad>>

\* update_slash_protection_db, lines 52-84: the record is appended to the copy
\* read at line 51 and the copy is written back; the copy is dropped on return
UpdateWrite(r) ==
    /\ pc[r] = "write"
    /\ \E io \in BOOLEAN :
        LET app == UpdateAppend(db[r], req[r], growable)
            ok == app.ok /\ io
        IN /\ Goto(r, AfterUpdate(ok))
           /\ store' = IF ok THEN Write(store, bls_pk_hex[r], app.val) ELSE store
           /\ db' = [db EXCEPT ![r] = NoHistory]
           /\ rec' = [rec EXCEPT ![r] = IF ok THEN UpdateRecord(req[r]) ELSE @]
    /\ UNCHANGED <<growable, genesis_fork_version, bls_pk_hex, req, signing_root,
                   signerCalls, bad>>

\* bls_agg_sign_from_saved_sk and the response (lines 158-170)
Sign(r) ==
    /\ pc[r] = "sign"
    /\ \E ok \in BOOLEAN : Goto(r, AfterSign(ok))
    /\ signerCalls' = [signerCalls EXCEPT ![r] = Append(@, signing_root[r])]
    /\ UNCHANGED <<growable, genesis_fork_version, store, bls_pk_hex, req, db, rec,
                   signing_root, bad>>

\* Requests served in parallel, for one key: blocks, attestations, other
\* messages, malformed bodies and bad keys.
Bodies ==
    BlockMsgs(MaxSlot) \cup ValidAttestationMsgs(MaxEpoch) \cup OtherMsgs \cup {BadBody}

Next ==
    \/ \E r \in Requests : Receive(r, {"aa", "AA", BadKey}, Bodies)
    \/ \E r \in Requests : UpdateRead(r)
    \/ \E r \in Requests : UpdateWrite(r)
    \/ \E r \in Requests : Sign(r)

Init == InitOf(NumReq, {"aa"})
Spec == Init /\ [][Next]_vars

\* Requests served one after another: one arrives when no other is in flight.
Alone == \A q \in Requests : ~InFlight(q)

\* Block requests (and requests that are not slashable) for one key, in sequence.
SeqBodies == BlockMsgs(SeqMaxSlot) \cup OtherMsgs \cup {BadBody}

NextSeq ==
    \/ \E r \in Requests : Alone /\ Receive(r, {"aa", "AA", BadKey}, SeqBodies)
    \/ \E r \in Requests : UpdateRead(r)
    \/ \E r \in Requests : UpdateWrite(r)
    \/ \E r \in Requests : Sign(r)

InitSeq == InitOf(SeqReq, {"aa"})
SeqSpec == InitSeq /\ [][NextSeq]_vars

\* Attestation requests (source epoch <= target epoch) for one key, in sequence.
NextAtt ==
    \/ \E r \in Requests :
            Alone /\ Receive(r, {"aa"}, ValidAttestationMsgs(SeqMaxEpoch))
    \/ \E r \in Requests : UpdateRead(r)
    \/ \E r \in Requests : UpdateWrite(r)
    \/ \E r \in Requests : Sign(r)

AttSpec == InitSeq /\ [][NextAtt]_vars

\* Block requests for one key: all but the last in parallel, the last one
\* after the others have finished.
Last == Cardinality(Requests)

NextPar ==
    \/ \E r \in Requests : r # Last /\ Receive(r, {"aa"}, BlockV1Msgs(SeqMaxSlot))
    \/ Alone /\ Receive(Last, {"aa"}, BlockV1Msgs(SeqMaxSlot))
    \/ \E r \in Requests : UpdateRead(r)
    \/ \E r \in Requests : UpdateWrite(r)
    \/ \E r \in Requests : Sign(r)

ParSpec == InitSeq /\ [][NextPar]_vars

\* ======================================================== the claims
Recorded(r) == rec[r] # NoRecord
SignerInvoked(r) == signerCalls[r] # <<>>
SameKey(q, r) == bls_pk_hex[q] = bls_pk_hex[r] /\ bls_pk_hex[r] \in Keys

\* the store holds the record the request committed
Holds(h, r) ==
    IF IsBlock(req[r])
    THEN \E i \in 1..Len(h.blocks) : h.blocks[i] = rec[r]
    ELSE \E i \in 1..Len(h.atts) : h.atts[i] = rec[r]

\* C1: of the block requests for one key at one slot, at most one is Signed,
\* in every interleaving of their checks, updates and signer calls.
C1_OneSignedPerSlot ==
    \A q \in Requests, r \in Requests :
        (q # r /\ SameKey(q, r) /\ IsBlock(req[q]) /\ IsBlock(req[r])
              /\ req[q].slot = req[r].slot)
            => ~(outcome[q] = "Signed" /\ outcome[r] = "Signed")

\* C2: a block or attestation request whose update_slash_protection_db failed
\* ends RejectedStoreFailure without a signer call, and the signer is only ever
\* called for a block or attestation whose record was written.
C2_NoSignatureWithoutRecord ==
    \A r \in Requests :
        /\ reason[r] = "update" =>
              /\ pc[r] = "done"
              /\ outcome[r] = "RejectedStoreFailure"
              /\ ~SignerInvoked(r)
        /\ (can_be_slashed(req[r]) /\ (SignerInvoked(r) \/ outcome[r] = "Signed"))
              => Recorded(r)

C2_Witness ==
    \E r \in Requests :
        /\ pc[r] = "done" /\ reason[r] = "update" /\ can_be_slashed(req[r])
        /\ outcome[r] = "RejectedStoreFailure" /\ ~Recorded(r)

\* C3: of block requests for one key served one after another, one that meets
\* no failure is Signed iff its slot is greater than every slot recorded for
\* the key by the requests before it, and RejectedSlashable otherwise; the
\* slots of the Signed ones increase strictly.
C3_SignedIffSlotGreater ==
    \A r \in Requests :
        (pc[r] = "done" /\ IsBlock(req[r]))
            => /\ outcome[r] \in {"Signed", "RejectedSlashable"} =>
                    (outcome[r] = "Signed" <=>
                        \A q \in Requests :
                            (q < r /\ SameKey(q, r) /\ IsBlock(req[q]) /\ Recorded(q))
                                => req[r].slot > req[q].slot)
               /\ \A q \in Requests :
                    (q < r /\ SameKey(q, r) /\ IsBlock(req[q])
                          /\ outcome[q] = "Signed" /\ outcome[r] = "Signed")
                        => req[q].slot < req[r].slot

C3_Witness ==
    /\ \A r \in 1..3 : pc[r] = "done" /\ IsBlock(req[r]) /\ bls_pk_hex[r] = "aa"
    /\ req[1].slot = 1 /\ outcome[1] = "Signed"
    /\ req[2].slot = 1 /\ outcome[2] = "RejectedSlashable"
    /\ req[3].slot = 2 /\ outcome[3] = "Signed"

\* C4: of attestation requests for one key served one after another, no two
\* Signed ones are a double vote (same target epoch) or a surround vote (one
\* epoch pair strictly inside the other), whichever of the two came first.
Surrounds(a, b) == a.source < b.source /\ b.target < a.target

C4_NoDoubleOrSurroundVote ==
    \A q \in Requests, r \in Requests :
        (q < r /\ SameKey(q, r) /\ IsAttestation(req[q]) /\ IsAttestation(req[r])
              /\ outcome[q] = "Signed" /\ outcome[r] = "Signed")
            => /\ req[q].target # req[r].target
               /\ ~Surrounds(req[q], req[r])
               /\ ~Surrounds(req[r], req[q])

\* the request passes parsing and sanitization and has its slashability checked
Arrives(r) == pc[r] = "idle" /\ pc'[r] # "idle" /\ bls_pk_hex'[r] \in Keys

\* C5: while a key has no history and the growable policy is disabled, every
\* request for it, of any kind, ends RejectedStoreFailure at its check, with no
\* signer call, and the key still has no history afterwards.
C5_StrictModeUnknownKey ==
    /\ [](\A r \in Requests :
            (outcome[r] = "RejectedStoreFailure" /\ reason[r] = "check")
                => (pc[r] = "done" /\ ~SignerInvoked(r) /\ ~Recorded(r)))
    /\ [][\A k \in Keys :
            (~growable /\ ~store[k].exists)
                => /\ ~store'[k].exists
                   /\ \A r \in Requests :
                        (Arrives(r) /\ bls_pk_hex'[r] = k)
                            => /\ pc'[r] = "done"
                               /\ outcome'[r] = "RejectedStoreFailure"
                               /\ reason'[r] = "check"]_vars

C5_Witness ==
    \E r \in Requests :
        /\ ~growable /\ bls_pk_hex[r] \in Keys /\ ~store[bls_pk_hex[r]].exists
        /\ IsBlock(req[r])
        /\ pc[r] = "done" /\ outcome[r] = "RejectedStoreFailure"

\* the evaluator's verdict on a history and a message
Verdict(h, m) ==
    \/ IsBlock(m) /\ is_slashable_block_slot(h, m.slot)
    \/ IsAttestation(m) /\ is_slashable_attestation_epochs(h, m.source, m.target)

\* C6: a request whose check reads a history in which its message is slashable
\* ends RejectedSlashable in that step, which leaves the store and the signer
\* untouched; the request is then finished: it takes no further step, writes
\* no record and never calls the signer.
C6_SlashableIsTerminal ==
    /\ [](\A r \in Requests :
            outcome[r] = "RejectedSlashable"
                => (pc[r] = "done" /\ ~SignerInvoked(r) /\ ~Recorded(r)))
    /\ [][\A r \in Requests :
            /\ (Arrives(r) /\ outcome'[r] # "RejectedStoreFailure"
                    /\ Verdict(store[bls_pk_hex'[r]], req'[r]))
                => /\ pc'[r] = "done"
                   /\ outcome'[r] = "RejectedSlashable"
                   /\ store' = store
                   /\ signerCalls' = signerCalls
            /\ outcome[r] = "RejectedSlashable"
                => outcome'[r] = "RejectedSlashable"]_vars

C6_Witness ==
    \E r \in Requests :
        /\ pc[r] = "done" /\ outcome[r] = "RejectedSlashable"
        /\ Verdict(store[bls_pk_hex[r]], req[r])

\* C7: whenever the signer is about to be called for a block or attestation
\* request, the stored history of its key holds the record the request wrote.
C7_RecordDurableAtSign ==
    \A r \in Requests :
        (pc[r] = "sign" /\ can_be_slashed(req[r]))
            => Holds(store[bls_pk_hex[r]], r)

\* C8 as stated: the check of a message that is neither a block nor an
\* attestation cannot fail.
C8_OtherKindCheckCannotFail ==
    \A r \in Requests :
        req[r].kind = "OTHER" => outcome[r] # "RejectedStoreFailure"

\* C8, amended: the check of such a message reads the history of the key first:
\* it fails when no history exists and the growable policy is disabled, and
\* when the read succeeds it passes whatever the history holds; it never writes.
C8_OtherKindCheckReadsStore ==
    [][\A r \in Requests :
        (Arrives(r) /\ req'[r].kind = "OTHER")
            => /\ store' = store
               /\ outcome'[r] # "RejectedSlashable"
               /\ (~growable /\ ~store[bls_pk_hex'[r]].exists)
                    => outcome'[r] = "RejectedStoreFailure"
               /\ outcome'[r] # "RejectedStoreFailure" => pc'[r] = "sign"]_vars

C8_Witness ==
    \E r \in Requests :
        /\ req[r].kind = "OTHER" /\ pc[r] = "done"
        /\ outcome[r] = "RejectedStoreFailure" /\ reason[r] = "check"
        /\ ~growable /\ ~store[bls_pk_hex[r]].exists

\* C9: the root handed to the signer for a block or attestation request is the
\* root stored in the record the request committed.
C9_SignedRootIsRecordedRoot ==
    \A r \in Requests :
        (SignerInvoked(r) /\ can_be_slashed(req[r]))
            => signerCalls[r][1] = rec[r].signing_root

\* C10: when the signer failed for a block request whose record was written,
\* a request for the same key and slot that arrives after it ended (and meets
\* no store failure) is RejectedSlashable.
C10_RecordSurvivesSignerFailure ==
    \A r \in Requests :
        (r # Last /\ outcome[r] = "RejectedCryptoFailure" /\ Recorded(r)
              /\ pc[Last] = "done" /\ SameKey(r, Last)
              /\ IsBlock(req[r]) /\ IsBlock(req[Last])
              /\ req[Last].slot = req[r].slot
              /\ outcome[Last] # "RejectedStoreFailure")
            => outcome[Last] = "RejectedSlashable"

\* the steps of request r after its arrival
Step(r) == UpdateRead(r) \/ UpdateWrite(r) \/ Sign(r)
Rank(p) ==
    CASE p = "idle" -> 0 [] p = "check" -> 1 [] p = "update" -> 2
      [] p = "write" -> 3 [] p = "sign" -> 4 [] OTHER -> 5
Outcomes ==
    {"Signed", "RejectedMalformed", "RejectedSlashable", "RejectedStoreFailure",
     "RejectedCryptoFailure"}

\* C11: a request has an outcome exactly when it has finished, the outcome is
\* one of the five and never changes; a request in flight always has a next
\* step, and every step moves it forward, so it finishes when its store and
\* signer calls return; each failing step yields its one rejection.
C11_ExactlyOneOutcome ==
    /\ [](\A r \in Requests :
            /\ pc[r] = "done" <=> outcome[r] \in Outcomes
            /\ pc[r] # "done" => (outcome[r] = "none" /\ reason[r] = "none")
            /\ InFlight(r) => ENABLED Step(r)
            /\ reason[r] \in {"body", "key"} <=> outcome[r] = "RejectedMalformed"
            /\ reason[r] = "sign" <=> outcome[r] = "RejectedCryptoFailure"
            /\ reason[r] = "update" => outcome[r] = "RejectedStoreFailure"
            /\ reason[r] = "check" <=>
                    (outcome[r] = "RejectedSlashable"
                       \/ (outcome[r] = "RejectedStoreFailure" /\ reason[r] # "update"))
            /\ reason[r] = "none" <=> outcome[r] \in {"none", "Signed"})
    /\ [][\A r \in Requests :
            /\ pc'[r] # pc[r] => Rank(pc'[r]) > Rank(pc[r])
            /\ pc[r] = "done" => (pc'[r] = "done" /\ outcome'[r] = outcome[r])]_vars

C11_Witness ==
    \E q \in Requests, r \in Requests :
        /\ pc[q] = "done" /\ outcome[q] = "RejectedCryptoFailure"
        /\ pc[r] = "done" /\ outcome[r] = "RejectedStoreFailure" /\ reason[r] = "update"

\* the records of one kind in a history, as a set
Records(h) ==
    IF h = NoHistory THEN {}
    ELSE {h.blocks[i] : i \in DOMAIN h.blocks} \cup {h.atts[i] : i \in DOMAIN h.atts}
MaxBlockSlot(h) ==
    IF h = NoHistory \/ h.blocks = <<>> THEN -1
    ELSE CHOOSE m \in {h.blocks[i].slot : i \in DOMAIN h.blocks} :
            \A i \in DOMAIN h.blocks : h.blocks[i].slot <= m

\* C12: no step of any request removes a record from a key's history, and the
\* largest recorded block slot of a key never decreases.
C12_RecordsNeverLost ==
    [][\A k \in Keys :
          /\ Records(store[k]) \subseteq Records(store'[k])
          /\ MaxBlockSlot(store[k]) <= MaxBlockSlot(store'[k])]_vars

\* Attestation requests with any source and target epochs, for one key, in
\* sequence.
NextAnyAtt ==
    \/ \E r \in Requests :
            Alone /\ Receive(r, {"aa"}, AttestationMsgs(SeqMaxEpoch))
    \/ \E r \in Requests : UpdateRead(r)
    \/ \E r \in Requests : UpdateWrite(r)
    \/ \E r \in Requests : Sign(r)

AnyAttSpec == InitSeq /\ [][NextAnyAtt]_vars

\* C13: every attestation record of every stored history has its source epoch
\* at or below its target epoch.
C13_SourceNotAboveTarget ==
    \A k \in Keys : \A i \in DOMAIN store[k].atts :
        store[k].atts[i].source_epoch <= store[k].atts[i].target_epoch

\* request r is between the history read of its check and the end of its write
InCriticalSection(r) == pc[r] \in {"update", "write"}

\* C14: no two requests for one key are at once between the read of the check
\* and the completion of the write.
C14_SerializedPerKey ==
    \A q \in Requests, r \in Requests :
        (q # r /\ SameKey(q, r)) => ~(InCriticalSection(q) /\ InCriticalSection(r))

\* C15: the signer is called at most once for a request, from the signing step
\* only; a request reaches that step either from a check that read a history in
\* which its message is not slashable (a message that is neither block nor
\* attestation) or from its own successful write of its record; a request
\* rejected as malformed, slashable or for a store failure never called it.
C15_SignerOnceAfterCheckAndRecord ==
    /\ [](\A r \in Requests :
            /\ Len(signerCalls[r]) <= 1
            /\ SignerInvoked(r) =>
                 /\ outcome[r] \in {"Signed", "RejectedCryptoFailure"}
                 /\ can_be_slashed(req[r]) => Recorded(r)
            /\ outcome[r] \in {"RejectedMalformed", "RejectedSlashable",
                               "RejectedStoreFailure"} => ~SignerInvoked(r))
    /\ [][\A r \in Requests :
            /\ signerCalls'[r] # signerCalls[r] =>
                 (pc[r] = "sign" /\ signerCalls[r] = <<>>)
            /\ (pc[r] = "idle" /\ pc'[r] \in {"update", "sign"}) =>
                 /\ ~Verdict(store[bls_pk_hex'[r]], req'[r])
                 /\ store[bls_pk_hex'[r]].exists \/ growable
                 /\ pc'[r] = "update" <=> can_be_slashed(req'[r])
            /\ (pc[r] # "sign" /\ pc'[r] = "sign" /\ can_be_slashed(req'[r])) =>
                 (pc[r] = "write" /\ rec'[r] = UpdateRecord(req[r])
                    /\ rec'[r] \in Records(store'[bls_pk_hex[r]]))]_vars

C15_Witness ==
    \E q \in Requests, r \in Requests :
        /\ outcome[q] = "Signed" /\ IsBlock(req[q]) /\ Recorded(q)
        /\ Len(signerCalls[q]) = 1
        /\ outcome[r] = "RejectedSlashable" /\ ~SignerInvoked(r)

\* C16: a request is rejected as malformed exactly when its body does not
\* deserialize or its key fails sanitization, for the body whenever the body is
\* bad; the rejecting step leaves the store as it was, and the request has no
\* key, no message, no copy of a history, no record and no signer call.
C16_MalformedTouchesNothing ==
    /\ [](\A r \in Requests :
            /\ outcome[r] = "RejectedMalformed" <=> (bad[r].body \/ bad[r].key)
            /\ bad[r].body => reason[r] = "body"
            /\ (bad[r].key /\ ~bad[r].body) => reason[r] = "key"
            /\ outcome[r] = "RejectedMalformed" =>
                 /\ ~SignerInvoked(r) /\ ~Recorded(r)
                 /\ db[r] = NoHistory /\ req[r] = NoMsg
                 /\ bls_pk_hex[r] \notin Keys)
    /\ [][\A r \in Requests :
            (outcome'[r] = "RejectedMalformed" /\ outcome[r] # "RejectedMalformed") =>
                 (pc[r] = "idle" /\ store' = store /\ signerCalls' = signerCalls)]_vars

C16_Witness ==
    \E q \in Requests, r \in Requests :
        /\ bad[q].body /\ bad[q].key /\ reason[q] = "body"
        /\ bad[r].key /\ ~bad[r].body /\ reason[r] = "key"

\* C17: a request whose message is neither block nor attestation never enters
\* update_slash_protection_db and has no record; none of its steps changes the
\* store; the store changes only in the write of a block or attestation
\* request; and the update, given such a message and any stored history,
\* returns an error, which writes nothing.
C17_OtherKindsLeaveStore ==
    /\ [](\A r \in Requests : req[r] \in OtherMsgs =>
            /\ pc[r] \notin {"update", "write"}
            /\ ~Recorded(r) /\ db[r] = NoHistory
            /\ \A k \in Keys : ~UpdateAppend(store[k], req[r], growable).ok)
    /\ [][/\ \A r \in Requests :
                (req'[r] \in OtherMsgs /\ pc'[r] # pc[r]) => store' = store
          /\ store' # store =>
                \E r \in Requests : /\ pc[r] = "write" /\ pc'[r] = "sign"
                                    /\ can_be_slashed(req[r])]_vars

C17_Witness ==
    \E q \in Requests, r \in Requests :
        /\ req[q] \in OtherMsgs /\ outcome[q] = "Signed"
        /\ req[r] \in OtherMsgs /\ outcome[r] = "RejectedCryptoFailure"

\* Requests served in parallel for two keys: blocks and other messages.
InitKeys == InitOf(NumReq, Keys)
NextKeys ==
    \/ \E r \in Requests :
            Receive(r, Keys, BlockMsgs(MaxSlot) \cup OtherMsgs)
    \/ \E r \in Requests : UpdateRead(r)
    \/ \E r \in Requests : UpdateWrite(r)
    \/ \E r \in Requests : Sign(r)

KeysSpec == InitKeys /\ [][NextKeys]_vars

\* the records committed by the requests for key k
RecordedFor(k) == {rec[r] : r \in {q \in Requests : bls_pk_hex[q] = k /\ Recorded(q)}}

\* C18: every record in a key's history was committed by a request for that
\* key, and the history has no more records than those requests committed; a step of a request leaves the history of every other key as it was;
\* and the verdict of a request's check is the evaluation of its message
\* against the history of its own key.
C18_KeysAreIsolated ==
    /\ [](\A k \in Keys :
            /\ Records(store[k]) \subseteq RecordedFor(k)
            /\ Len(store[k].blocks) <=
                 Cardinality({q \in Requests : bls_pk_hex[q] = k /\ Recorded(q)}))
    /\ [][\A r \in Requests :
            /\ pc'[r] # pc[r] =>
                 \A k \in Keys \ {bls_pk_hex'[r]} : store'[k] = store[k]
            /\ Arrives(r) =>
                 /\ outcome'[r] = "RejectedSlashable" =>
                        Verdict(store[bls_pk_hex'[r]], req'[r])
                 /\ pc'[r] \in {"update", "sign"} =>
                        ~Verdict(store[bls_pk_hex'[r]], req'[r])]_vars

\* a block was recorded for one key, and the same slot was then checked and
\* recorded for the other key
C18_Witness ==
    \E q \in Requests, r \in Requests :
        /\ bls_pk_hex[q] = "aa" /\ bls_pk_hex[r] = "bb"
        /\ Recorded(q) /\ Recorded(r) /\ rec[q].slot = rec[r].slot
        /\ q < r /\ outcome[q] = "Signed" /\ outcome[r] = "Signed"
        /\ Len(store["aa"].blocks) = 1 /\ Len(store["bb"].blocks) = 1

====
